---- MODULE Spec2Model ----
(***************************************************************************)
(* A model of package.py: the packager that turns The Swift Programming    *)
(* Language book into a skill directory.                                   *)
(*                                                                         *)
(* Text is a sequence of tokens.  A token is one character that the code   *)
(* tests for ("@", "#", "<", ">", "}", "(", ")", " ", the newline NL) or   *)
(* a run of ordinary characters ("Metadata", "Real Title", "6.2").  The    *)
(* two literals the regular expressions search for are one token each:     *)
(* DOC ("<doc:") and TITLE_TEXT ("The Swift Programming Language").        *)
(***************************************************************************)
EXTENDS Integers, Sequences, FiniteSets, TLC

VARIABLES
    env,                \* the inputs of a run: source tree, arguments, environment
    pc,                 \* position of the run in main/build
    version,            \* SkillGenerator.version
    doc_order,          \* build's local doc_order
    registry,           \* SkillGenerator.metadata_registry
    processed_sections, \* _process_files' local processed_sections
    fs,                 \* what the run can write: output directory, archive, GITHUB_OUTPUT
    writes,             \* history: the filesystem writes of the run, in order
    error,              \* the exception that reached main, if any
    content,            \* extract_metadata: the text of the file read
    metadata,           \* extract_metadata: its outcome
    skill_md            \* _generate_skill_md: the lines written to SKILL.md

vars == <<env, pc, version, doc_order, registry, processed_sections, fs, writes,
          error, content, metadata, skill_md>>

----------------------------------------------------------------------------
(* Bounds *)

MaxLines == 4
MaxTocLines == 3
MaxToc == 3
MaxReg == 3

----------------------------------------------------------------------------
(* Text helpers *)

NL == "\n"
SP == " "
DOC == "<doc:"
TITLE_TEXT == "The Swift Programming Language"

None == <<"<None>">>

IsSpace(c) == c \in {SP, NL, "\t"}

StartsWith(s, p) == Len(s) >= Len(p) /\ SubSeq(s, 1, Len(p)) = p

RECURSIVE LStrip(_)
LStrip(s) == IF s # <<>> /\ IsSpace(Head(s)) THEN LStrip(Tail(s)) ELSE s

RECURSIVE RStrip(_)
RStrip(s) ==
    IF s # <<>> /\ IsSpace(s[Len(s)]) THEN RStrip(SubSeq(s, 1, Len(s) - 1)) ELSE s

\* str.strip()
Strip(s) == RStrip(LStrip(s))

\* '\n'.join(lines)
RECURSIVE JoinLines(_)
JoinLines(lines) ==
    IF lines = <<>> THEN <<>>
    ELSE IF Len(lines) = 1 THEN lines[1]
    ELSE lines[1] \o <<NL>> \o JoinLines(Tail(lines))

\* The index of the first token at or after i that is `stop`, or
\* Len(text) + 1 when there is none.
RECURSIVE FindToken(_, _, _)
FindToken(text, i, stop) ==
    IF i > Len(text) \/ text[i] = stop THEN i ELSE FindToken(text, i + 1, stop)

\* str.splitlines(): the text cut at each newline; a text that ends with a
\* newline has no empty last line, and the empty text has no line at all.
RECURSIVE SplitFrom(_, _)
SplitFrom(text, i) ==
    IF i > Len(text) THEN <<>>
    ELSE LET j == FindToken(text, i, NL) IN
         <<SubSeq(text, i, j - 1)>> \o SplitFrom(text, j + 1)

SplitLines(text) == SplitFrom(text, 1)

\* All sequences over S of length at most n
SeqsUpTo(S, n) == UNION {[1..k -> S] : k \in 0..n}

\* PurePath.stem of a file name: the name without its last suffix; a name
\* that is nothing but ".md" has no suffix.
Stem(name) ==
    IF Len(name) > 1 /\ name[Len(name)] = ".md" THEN SubSeq(name, 1, Len(name) - 1)
    ELSE name

----------------------------------------------------------------------------
(* ContentParser.extract_metadata *)

NoDescription == <<"No description available.">>

\* The locals of extract_metadata before the loop.  Python binds
\* description only in the loop body: bound says whether it is bound.
\* title_line and desc_line record which line set the title and the
\* description (0: none).
ScanInit(file_name) ==
    [in_metadata_block |-> FALSE, found_title |-> FALSE, title |-> Stem(file_name),
     bound |-> FALSE, description |-> <<>>, broke |-> FALSE,
     title_line |-> 0, desc_line |-> 0]

\* Faulty variant: a blank line ends a metadata block
ScanLineBlankCloses(st, line, i) ==
    LET stripped == Strip(line) IN
    IF st.broke THEN st
    ELSE IF StartsWith(stripped, <<"@">>) THEN [st EXCEPT !.in_metadata_block = TRUE]
    ELSE IF st.in_metadata_block THEN
        IF stripped = <<"}">> \/ stripped = <<>>
        THEN [st EXCEPT !.in_metadata_block = FALSE]
        ELSE st
    ELSE IF stripped = <<>> THEN st
    ELSE IF ~st.found_title THEN
        IF StartsWith(stripped, <<"#", SP>>)
        THEN [st EXCEPT !.title = Strip(SubSeq(stripped, 3, Len(stripped))),
                        !.found_title = TRUE, !.title_line = i]
        ELSE st
    ELSE IF \/ StartsWith(stripped, <<"#">>)
            \/ StartsWith(stripped, <<"<">>)
            \/ StartsWith(stripped, <<">">>) THEN st
    ELSE [st EXCEPT !.description = stripped, !.bound = TRUE, !.broke = TRUE,
                    !.desc_line = i]

\* One iteration of the loop over lines (after a break nothing runs).
ScanLine(st, line, i) ==
    LET stripped == Strip(line) IN
    IF st.broke THEN st
    ELSE IF StartsWith(stripped, <<"@">>) THEN [st EXCEPT !.in_metadata_block = TRUE]
    ELSE IF st.in_metadata_block THEN
        IF stripped = <<"}">> THEN [st EXCEPT !.in_metadata_block = FALSE] ELSE st
    ELSE IF stripped = <<>> THEN st
    ELSE IF ~st.found_title THEN
        IF StartsWith(stripped, <<"#", SP>>)
        THEN [st EXCEPT !.title = Strip(SubSeq(stripped, 3, Len(stripped))),
                        !.found_title = TRUE, !.title_line = i]
        ELSE st
    ELSE IF \/ StartsWith(stripped, <<"#">>)
            \/ StartsWith(stripped, <<"<">>)
            \/ StartsWith(stripped, <<">">>) THEN st
    ELSE [st EXCEPT !.description = stripped, !.bound = TRUE, !.broke = TRUE,
                    !.desc_line = i]

RECURSIVE ScanFrom(_, _, _)
ScanFrom(st, lines, i) ==
    IF i > Len(lines) THEN st ELSE ScanFrom(ScanLine(st, lines[i], i), lines, i + 1)

\* The outcome of extract_metadata(file_path, section) on a file with this
\* text.  `if not description` reads a local that is unbound when the loop
\* never reached its last statement: Python raises UnboundLocalError.
extract_metadata(text, file_name, section) ==
    LET st == ScanFrom(ScanInit(file_name), SplitLines(text), 1) IN
    IF ~st.bound
    THEN [raised |-> TRUE, exc |-> "UnboundLocalError", filename |-> file_name,
          section |-> section, title |-> st.title, description |-> <<>>,
          title_line |-> st.title_line, desc_line |-> 0]
    ELSE [raised |-> FALSE, exc |-> "", filename |-> file_name, section |-> section,
          title |-> st.title,
          description |-> IF st.description = <<>> THEN NoDescription
                          ELSE st.description,
          title_line |-> st.title_line, desc_line |-> st.desc_line]

----------------------------------------------------------------------------
(* ContentParser.get_version and ContentParser.parse_toc_order *)

\* The index after the run of whitespace that starts at i (\s+ is greedy,
\* and what follows it in both places is not whitespace).
RECURSIVE SkipSpaces(_, _)
SkipSpaces(text, i) ==
    IF i <= Len(text) /\ IsSpace(text[i]) THEN SkipSpaces(text, i + 1) ELSE i

\* re.MULTILINE: ^ matches at the start of the text and after each newline.
AtLineStart(text, i) == i = 1 \/ text[i - 1] = NL

\* The capture of  ^#\s+The Swift Programming Language\s+\(([^)]+)\)
\* matched at index i, or None.
VersionMatchAt(text, i) ==
    LET a == i + 1
        b == SkipSpaces(text, a)
        c == b + 1
        d == SkipSpaces(text, c)
        e == d + 1
        f == FindToken(text, e, ")")
    IN  IF /\ i <= Len(text) /\ AtLineStart(text, i) /\ text[i] = "#"
           /\ b > a /\ b <= Len(text) /\ text[b] = TITLE_TEXT
           /\ d > c /\ d <= Len(text) /\ text[d] = "("
           /\ f > e /\ f <= Len(text)
        THEN SubSeq(text, e, f - 1)
        ELSE None

\* re.search: the match at the leftmost index that has one.
RECURSIVE VersionSearch(_, _)
VersionSearch(text, i) ==
    IF i > Len(text) THEN None
    ELSE IF VersionMatchAt(text, i) # None THEN VersionMatchAt(text, i)
    ELSE VersionSearch(text, i + 1)

\* get_version: None when the TOC file is missing or nothing matches.
get_version(e) == IF ~e.toc_exists THEN None ELSE VersionSearch(e.toc_text, 1)

\* re.findall(r'<doc:([^>]+)>', content): the captures of the matches from
\* left to right, each search resuming after the previous match.
RECURSIVE FindAllDocs(_, _)
FindAllDocs(text, i) ==
    IF i > Len(text) THEN <<>>
    ELSE LET e == i + 1
             f == FindToken(text, e, ">")
         IN  IF text[i] = DOC /\ f > e /\ f <= Len(text)
             THEN <<SubSeq(text, e, f - 1)>> \o FindAllDocs(text, f + 1)
             ELSE FindAllDocs(text, i + 1)

parse_toc_order(text) == FindAllDocs(text, 1)

----------------------------------------------------------------------------
(* Configuration and the source tree *)

SECTIONS == <<"GuidedTour", "LanguageGuide", "ReferenceManual">>
SKILL_NAME == "programming-swift"
REPO_URL == "https://github.com/swiftlang/swift-book.git"

SectionSet == {SECTIONS[i] : i \in DOMAIN SECTIONS}

\* _copy_license's candidates, in the order it tries them
LICENSE_NAMES == << <<"LICENSE", ".md">>, <<"LICENSE">>, <<"LICENSE", ".txt">> >>

\* The injective sequences that enumerate the finite set S
Perms(S) ==
    {p \in [1..Cardinality(S) -> S] : \A i, j \in 1..Cardinality(S) : p[i] = p[j] => i = j}

\* A path below the output directory
SectionPath(section, name) == <<section>> \o name
SkillMdPath == <<"SKILL", ".md">>

\* A chapter with a title and a first paragraph, and one whose title is
\* followed by a blockquote only.
ChapterText(section, name) ==
    JoinLines(<< <<"#", SP, "Title of", section>> \o name, <<>>,
                 <<"About", section>> \o name \o <<"[", "link", "]">>, <<"More text.">> >>)
QuoteOnlyText(section, name) ==
    JoinLines(<< <<"#", SP, "Title of", section>> \o name, <<>>, <<">", SP, "Note">> >>)

\* A file of the tree, and file_path.read_text() of it
File(section, name) == [section |-> section, name |-> name, kind |-> "chapter"]
QuoteOnlyFile(section, name) == [section |-> section, name |-> name, kind |-> "quote"]
ReadText(f) ==
    IF f.kind = "quote" THEN QuoteOnlyText(f.section, f.name)
    ELSE ChapterText(f.section, f.name)

IdA == <<"A">>
IdB == <<"B">>
IdC == <<"C">>
IdDot == <<".md">>

\* The source trees of the model: which section directories exist under
\* TSPL.docc and the files in them.
TreePlain ==
    [dirs |-> SectionSet,
     files |-> {File("GuidedTour", <<"A", ".md">>), File("GuidedTour", <<"notes", ".txt">>),
                File("LanguageGuide", <<"B", ".md">>),
                File("ReferenceManual", <<"C", ".md">>)}]
\* C.md in two sections
TreeCross ==
    [dirs |-> SectionSet,
     files |-> {File("GuidedTour", <<"A", ".md">>), File("LanguageGuide", <<"B", ".md">>),
                File("LanguageGuide", <<"C", ".md">>),
                File("ReferenceManual", <<"C", ".md">>)}]
\* ".md" and ".md.md" in one directory: both have the stem ".md"
TreeDot ==
    [dirs |-> SectionSet,
     files |-> {File("GuidedTour", <<".md">>), File("GuidedTour", <<".md", ".md">>),
                File("LanguageGuide", <<"B", ".md">>),
                File("ReferenceManual", <<"C", ".md">>)}]
\* no ReferenceManual directory
TreeNoRef ==
    [dirs |-> {"GuidedTour", "LanguageGuide"},
     files |-> {File("GuidedTour", <<"A", ".md">>), File("LanguageGuide", <<"B", ".md">>)}]
\* B.md has no paragraph after its title
TreeQuote ==
    [dirs |-> SectionSet,
     files |-> {File("GuidedTour", <<"A", ".md">>),
                QuoteOnlyFile("LanguageGuide", <<"B", ".md">>),
                File("ReferenceManual", <<"C", ".md">>)}]

Trees == {TreePlain, TreeCross, TreeDot, TreeNoRef, TreeQuote}

HeadingLine == <<"#", SP, TITLE_TEXT, SP, "(", "6.2", ")">>
RefLine(id) == <<"-", SP, DOC>> \o id \o <<">">>
TocLineVocab == {HeadingLine, RefLine(IdA), RefLine(IdB), RefLine(IdC), RefLine(IdDot)}

LicenseSets == { {}, {<<"LICENSE">>, <<"LICENSE", ".txt">>} }

Envs ==
    {[toc_exists |-> TRUE, toc_text |-> JoinLines(ls), tree |-> t, licenses |-> l,
      dry_run |-> d, gh_output |-> g, out_exists |-> o] :
        ls \in SeqsUpTo(TocLineVocab, MaxToc), t \in Trees, l \in LicenseSets,
        d \in BOOLEAN, g \in BOOLEAN, o \in BOOLEAN}
    \cup
    {[toc_exists |-> FALSE, toc_text |-> <<>>, tree |-> t, licenses |-> l,
      dry_run |-> d, gh_output |-> g, out_exists |-> o] :
        t \in Trees, l \in LicenseSets, d \in BOOLEAN, g \in BOOLEAN, o \in BOOLEAN}

\* No exception, and no outcome of extract_metadata yet
NoError == [kind |-> "", msg |-> "", sections |-> <<>>]
NoMetadata == [raised |-> FALSE, exc |-> "not run"]

\* Values of the variables a specification of one function leaves alone
NoRun == [toc_exists |-> FALSE, toc_text |-> <<>>, dry_run |-> FALSE]
NoFs == [out_exists |-> FALSE, out_files |-> {}, out_dirs |-> {}, zip |-> FALSE,
         gh_lines |-> <<>>]

\* What an earlier run left at the output path
OldBundle == {SkillMdPath, SectionPath("GuidedTour", <<"Old", ".md">>)}


----------------------------------------------------------------------------
(* SkillGenerator._process_files *)

\* section_path.glob("*.md"): the files of the directory whose name ends
\* in ".md"
GlobMd(tree, section) ==
    {f \in tree.files : f.section = section /\ f.name[Len(f.name)] = ".md"}

\* The orders in which one section directory can be enumerated (a missing
\* directory is skipped), and the orders for the three sections together.
DirOrders(tree, section) ==
    IF section \in tree.dirs THEN Perms(GlobMd(tree, section)) ELSE {<<>>}

ScanOrders(tree) ==
    {[s \in SectionSet |->
        IF s = SECTIONS[1] THEN a ELSE IF s = SECTIONS[2] THEN b ELSE c] :
        a \in DirOrders(tree, SECTIONS[1]), b \in DirOrders(tree, SECTIONS[2]),
        c \in DirOrders(tree, SECTIONS[3])}

\* Faulty variant: only the first file of each directory is visited
RECURSIVE VisitedFirstOnly(_, _)
VisitedFirstOnly(scan, i) ==
    IF i > Len(SECTIONS) THEN <<>>
    ELSE (IF scan[SECTIONS[i]] = <<>> THEN <<>> ELSE <<scan[SECTIONS[i]][1]>>)
            \o VisitedFirstOnly(scan, i + 1)

\* The files in the order the two nested loops visit them: the sections in
\* SECTIONS order, each directory in its scan order.
RECURSIVE Visited(_, _)
Visited(scan, i) ==
    IF i > Len(SECTIONS) THEN <<>> ELSE scan[SECTIONS[i]] \o Visited(scan, i + 1)

\* file_map after the loops: file_map[md_file.stem] = (section, md_file),
\* a later assignment replacing an earlier one.
FileMap(scan) ==
    LET seen == Visited(scan, 1)
        last(id) == CHOOSE i \in DOMAIN seen :
                        /\ Stem(seen[i].name) = id
                        /\ \A j \in DOMAIN seen : Stem(seen[j].name) = id => j <= i
    IN  [id \in {Stem(seen[i].name) : i \in DOMAIN seen} |-> seen[last(id)]]

\* The DocumentMetadata the registry keeps
Record(m, f) ==
    [filename |-> m.filename, section |-> m.section, title |-> m.title,
     description |-> m.description, path |-> SectionPath(f.section, f.name)]

ProcessInit(out) ==
    [registry |-> <<>>, processed |-> [s \in SectionSet |-> 0], out_files |-> out.out_files,
     out_dirs |-> out.out_dirs, writes |-> <<>>, raised |-> FALSE, exc |-> ""]

\* The copy of one file: dest_dir.mkdir(parents=True, exist_ok=True), then
\* shutil.copy2(source_path, dest_dir / source_path.name).
CopyFile(st, f) ==
    [st EXCEPT
        !.out_dirs = @ \cup {f.section},
        !.out_files = @ \cup {SectionPath(f.section, f.name)},
        !.writes = @ \o (IF f.section \in st.out_dirs THEN <<>>
                         ELSE <<[op |-> "mkdir", path |-> <<f.section>>]>>)
                     \o <<[op |-> "copy", path |-> SectionPath(f.section, f.name)]>>]

\* Faulty variant: a name that is not in file_map raises KeyError
ProcessDocUnknownRaises(st, doc_name, file_map, dry_run) ==
    IF doc_name \notin DOMAIN file_map THEN [st EXCEPT !.raised = TRUE, !.exc = "KeyError"]
    ELSE LET f == file_map[doc_name]
             m == extract_metadata(ReadText(f), f.name, f.section)
         IN  IF m.raised THEN [st EXCEPT !.raised = TRUE, !.exc = m.exc]
             ELSE LET st1 == [st EXCEPT !.registry = Append(@, Record(m, f)),
                                        !.processed[f.section] = @ + 1]
                  IN  IF dry_run THEN st1 ELSE CopyFile(st1, f)

\* Faulty variant: the file is copied before its metadata is extracted
ProcessDocCopyFirst(st, doc_name, file_map, dry_run) ==
    IF doc_name \notin DOMAIN file_map THEN st
    ELSE LET f == file_map[doc_name]
             m == extract_metadata(ReadText(f), f.name, f.section)
             st0 == IF dry_run THEN st ELSE CopyFile(st, f)
         IN  IF m.raised THEN [st0 EXCEPT !.raised = TRUE, !.exc = m.exc]
             ELSE [st0 EXCEPT !.registry = Append(@, Record(m, f)),
                              !.processed[f.section] = @ + 1]

\* One iteration of `for doc_name in doc_order`
ProcessDoc(st, doc_name, file_map, dry_run) ==
    IF doc_name \notin DOMAIN file_map THEN st
    ELSE LET f == file_map[doc_name]
             m == extract_metadata(ReadText(f), f.name, f.section)
         IN  IF m.raised THEN [st EXCEPT !.raised = TRUE, !.exc = m.exc]
             ELSE LET st1 == [st EXCEPT !.registry = Append(@, Record(m, f)),
                                        !.processed[f.section] = @ + 1]
                  IN  IF dry_run THEN st1 ELSE CopyFile(st1, f)

\* The loop; an exception from extract_metadata leaves it.
RECURSIVE ProcessFrom(_, _, _, _, _)
ProcessFrom(st, order, i, file_map, dry_run) ==
    IF i > Len(order) \/ st.raised THEN st
    ELSE ProcessFrom(ProcessDoc(st, order[i], file_map, dry_run), order, i + 1,
                     file_map, dry_run)

\* Faulty variant: the run fails only when every section is empty
MissingSectionsAllEmpty(processed) ==
    IF \A s \in SectionSet : processed[s] = 0 THEN SECTIONS ELSE <<>>

\* missing_sections = [s for s, count in processed_sections.items() if count == 0]
MissingSections(processed) ==
    SelectSeq(SECTIONS, LAMBDA s : processed[s] = 0)

----------------------------------------------------------------------------
(* SkillGenerator._copy_license and SkillGenerator._generate_skill_md *)

\* The first candidate that exists in the repository root, or None
RECURSIVE FirstLicense(_, _)
FirstLicense(licenses, i) ==
    IF i > Len(LICENSE_NAMES) THEN None
    ELSE IF LICENSE_NAMES[i] \in licenses THEN LICENSE_NAMES[i]
    ELSE FirstLicense(licenses, i + 1)

\* section_titles.get(section_key, section_key)
SectionTitle(section) ==
    CASE section = "GuidedTour" -> "Getting Started (GuidedTour)"
      [] section = "LanguageGuide" -> "Language Guide"
      [] section = "ReferenceManual" -> "Reference Manual"
      [] OTHER -> section

\* doc.description.replace('[', '(').replace(']', ')')
SafeDesc(desc) ==
    [i \in DOMAIN desc |->
        IF desc[i] = "[" THEN "(" ELSE IF desc[i] = "]" THEN ")" ELSE desc[i]]

\* f"- **{doc.title}** ([{rel_path}]({rel_path})): {safe_desc}"
EntryLine(doc) ==
    LET rel_path == <<doc.section, "/">> \o doc.filename IN
    <<"- **">> \o doc.title \o <<"** ([">> \o rel_path \o <<"](">> \o rel_path
        \o <<")): ">> \o SafeDesc(doc.description)

HeadingOf(section) == <<"### ", SectionTitle(section)>>

\* sections[meta.section].append(meta) for the records of the registry
DocsOf(reg, section) ==
    SelectSeq(reg, LAMBDA m : m.section \in SectionSet /\ m.section = section)

RECURSIVE EntryLines(_, _)
EntryLines(docs, i) ==
    IF i > Len(docs) THEN <<>> ELSE <<EntryLine(docs[i])>> \o EntryLines(docs, i + 1)

\* Faulty variant: the blocks in the order the sections first appear in the registry
RECURSIVE BlocksByAppearance(_, _, _)
BlocksByAppearance(reg, i, done) ==
    IF i > Len(reg) THEN <<>>
    ELSE IF reg[i].section \in done THEN BlocksByAppearance(reg, i + 1, done)
    ELSE <<HeadingOf(reg[i].section), <<>>>>
            \o EntryLines(DocsOf(reg, reg[i].section), 1) \o << <<>> >>
            \o BlocksByAppearance(reg, i + 1, done \cup {reg[i].section})

SectionBlocksByAppearance(reg, k) == BlocksByAppearance(reg, 1, {})

\* `for section_key in self.config.SECTIONS`, from the k-th section on: a
\* section without documents is skipped, another gives its heading, an
\* empty line, its entries and an empty line.
RECURSIVE SectionBlocks(_, _)
SectionBlocks(reg, k) ==
    IF k > Len(SECTIONS) THEN <<>>
    ELSE LET docs == DocsOf(reg, SECTIONS[k]) IN
         (IF docs = <<>> THEN <<>>
          ELSE <<HeadingOf(SECTIONS[k]), <<>>>> \o EntryLines(docs, 1) \o << <<>> >>)
         \o SectionBlocks(reg, k + 1)

VersionSuffix(ver) == IF ver # None /\ ver # <<>> THEN <<" (">> \o ver \o <<")">> ELSE <<>>

StructureLine == <<"## Documentation Structure">>
UsageLine == <<"## Usage Notes">>

\* The list `content` that _generate_skill_md joins and writes
SkillMdLines(reg, ver) ==
    << <<"---">>,
       <<"name: ", SKILL_NAME>>,
       <<"description: Provides the complete content of 'The Swift Programming Language">>
          \o VersionSuffix(ver) \o <<"' book by Apple. Use this skill when you need to ...">>,
       <<"---">>,
       <<>>,
       <<"# The Swift Programming Language">>,
       <<>>,
       <<"The entire content of The Swift Programming Language">> \o VersionSuffix(ver)
          \o <<" book by Apple. This is a comprehensive language reference ...">>,
       <<>>,
       StructureLine,
       <<>> >>
    \o SectionBlocks(reg, 1)
    \o << UsageLine,
          <<>>,
          <<"- Organized progressively: GuidedTour -> LanguageGuide -> ReferenceManual">>,
          <<>>,
          <<"## License & Attribution">>,
          <<>>,
          <<"This skill contains content from [The Swift Programming Language](", REPO_URL,
            "), distributed under the **Apache 2.0 License**.">>,
          <<>>,
          <<"Copyright (c) Apple Inc. and the Swift project authors.">>,
          <<>>,
          <<"This package is a derivative work ...">>,
          <<>> >>

----------------------------------------------------------------------------
(* A run: main, from the call of generator.build() to the exit *)

\* What the run can write, before it starts: the output path holds an
\* earlier bundle or nothing
InitialFs ==
    [out_exists |-> env.out_exists,
     out_files |-> IF env.out_exists THEN OldBundle ELSE {},
     out_dirs |-> IF env.out_exists THEN {"GuidedTour"} ELSE {},
     zip |-> FALSE, gh_lines |-> <<>>]

Init ==
    /\ env \in Envs
    /\ pc = "get_version"
    /\ version = None
    /\ doc_order = <<>>
    /\ registry = <<>>
    /\ processed_sections = [s \in SectionSet |-> 0]
    /\ fs = InitialFs
    /\ writes = <<>>
    /\ error = NoError
    /\ content = <<>>
    /\ metadata = NoMetadata
    /\ skill_md = <<>>

\* build, step 1: self.version = self.parser.get_version(...)
GetVersion ==
    /\ pc = "get_version"
    /\ version' = get_version(env)
    /\ pc' = "export_version"
    /\ UNCHANGED <<env, doc_order, registry, processed_sections, fs, writes, error,
                   content, metadata, skill_md>>

\* build: the line appended to the file GITHUB_OUTPUT names, when it is set
ExportVersion ==
    /\ pc = "export_version"
    /\ IF env.gh_output
       THEN /\ fs' = [fs EXCEPT !.gh_lines = Append(@,
                         <<"swift_version=">> \o (IF version # None /\ version # <<>>
                                                  THEN version ELSE <<"Unknown">>))]
            /\ writes' = Append(writes, [op |-> "append", path |-> <<"GITHUB_OUTPUT">>])
       ELSE UNCHANGED <<fs, writes>>
    /\ pc' = "parse_toc"
    /\ UNCHANGED <<env, version, doc_order, registry, processed_sections, error,
                   content, metadata, skill_md>>

\* build: doc_order = self.parser.parse_toc_order(...)
ParseTocOrder ==
    /\ pc = "parse_toc"
    /\ IF ~env.toc_exists
       THEN /\ error' = [kind |-> "FileNotFoundError", msg |-> "TOC file not found",
                         sections |-> <<>>]
            /\ pc' = "fatal"
            /\ UNCHANGED doc_order
       ELSE /\ doc_order' = parse_toc_order(env.toc_text)
            /\ pc' = "prepare"
            /\ UNCHANGED error
    /\ UNCHANGED <<env, version, registry, processed_sections, fs, writes, content,
                   metadata, skill_md>>

\* build, step 2: _prepare_directory unless dry_run
PrepareDirectory ==
    /\ pc = "prepare"
    /\ IF env.dry_run
       THEN UNCHANGED <<fs, writes>>
       ELSE /\ fs' = [fs EXCEPT !.out_exists = TRUE, !.out_files = {}, !.out_dirs = {}]
            /\ writes' = writes
                  \o (IF fs.out_exists THEN <<[op |-> "rmtree", path |-> <<>>]>> ELSE <<>>)
                  \o <<[op |-> "mkdir", path |-> <<>>]>>
    /\ pc' = "process"
    /\ UNCHANGED <<env, version, doc_order, registry, processed_sections, error,
                   content, metadata, skill_md>>

\* build, step 3: _process_files(doc_order), the directories enumerated in
\* some order
ProcessFiles ==
    /\ pc = "process"
    /\ \E scan \in ScanOrders(env.tree) :
        LET st == ProcessFrom(ProcessInit(fs), doc_order, 1, FileMap(scan), env.dry_run)
            missing == MissingSections(st.processed)
        IN  /\ registry' = st.registry
            /\ processed_sections' = st.processed
            /\ fs' = [fs EXCEPT !.out_files = st.out_files, !.out_dirs = st.out_dirs]
            /\ writes' = writes \o st.writes
            /\ IF st.raised
               THEN /\ error' = [kind |-> st.exc, msg |-> "extract_metadata",
                                 sections |-> <<>>]
                    /\ pc' = "fatal"
               ELSE IF missing # <<>>
               THEN /\ error' = [kind |-> "RuntimeError",
                                 msg |-> "No documents found for sections",
                                 sections |-> missing]
                    /\ pc' = "fatal"
               ELSE /\ pc' = "copy_license"
                    /\ UNCHANGED error
    /\ UNCHANGED <<env, version, doc_order, content, metadata, skill_md>>

\* build: _copy_license unless dry_run
CopyLicense ==
    /\ pc = "copy_license"
    /\ LET name == FirstLicense(env.licenses, 1) IN
       IF env.dry_run
       THEN /\ pc' = "generate"
            /\ UNCHANGED <<fs, writes, error>>
       ELSE IF name = None
       THEN /\ error' = [kind |-> "FileNotFoundError", msg |-> "No license file found",
                         sections |-> <<>>]
            /\ pc' = "fatal"
            /\ UNCHANGED <<fs, writes>>
       ELSE /\ fs' = [fs EXCEPT !.out_files = @ \cup {name}]
            /\ writes' = Append(writes, [op |-> "copy", path |-> name])
            /\ pc' = "generate"
            /\ UNCHANGED error
    /\ UNCHANGED <<env, version, doc_order, registry, processed_sections, content,
                   metadata, skill_md>>

\* build, step 4: _generate_skill_md unless dry_run
GenerateSkillMd ==
    /\ pc = "generate"
    /\ IF env.dry_run
       THEN UNCHANGED <<fs, writes, skill_md>>
       ELSE /\ skill_md' = JoinLines(SkillMdLines(registry, version))
            /\ fs' = [fs EXCEPT !.out_files = @ \cup {SkillMdPath}]
            /\ writes' = Append(writes, [op |-> "write", path |-> SkillMdPath])
    /\ pc' = "archive"
    /\ UNCHANGED <<env, version, doc_order, registry, processed_sections, error,
                   content, metadata>>

\* build, step 5: _create_zip_archive unless dry_run
CreateZipArchive ==
    /\ pc = "archive"
    /\ IF env.dry_run
       THEN UNCHANGED <<fs, writes>>
       ELSE /\ fs' = [fs EXCEPT !.zip = TRUE]
            /\ writes' = Append(writes, [op |-> "archive", path |-> <<".zip">>])
    /\ pc' = "complete"
    /\ UNCHANGED <<env, version, doc_order, registry, processed_sections, error,
                   content, metadata, skill_md>>

\* build returns ("Packaging complete") and main ends with status 0
Complete ==
    /\ pc = "complete"
    /\ pc' = "exit0"
    /\ UNCHANGED <<env, version, doc_order, registry, processed_sections, fs, writes,
                   error, content, metadata, skill_md>>

\* main's `except Exception`: log the error, sys.exit(1).  Nothing is
\* removed from the output path.
HandleFatal ==
    /\ pc = "fatal"
    /\ pc' = "exit1"
    /\ UNCHANGED <<env, version, doc_order, registry, processed_sections, fs, writes,
                   error, content, metadata, skill_md>>

Next ==
    \/ GetVersion
    \/ ExportVersion
    \/ ParseTocOrder
    \/ PrepareDirectory
    \/ ProcessFiles
    \/ CopyLicense
    \/ GenerateSkillMd
    \/ CreateZipArchive
    \/ Complete
    \/ HandleFatal

Spec == Init /\ [][Next]_vars

----------------------------------------------------------------------------
(* Properties of a run *)

AfterPass == {"copy_license", "generate", "archive", "complete", "exit0"}

\* The sections with no record in the registry
EmptySections(reg) == {s \in SectionSet : \A i \in DOMAIN reg : reg[i].section # s}

WritesOf(op, path) == {i \in DOMAIN writes : writes[i].op = op /\ writes[i].path = path}
IndexWritten == WritesOf("write", SkillMdPath) # {}
ArchiveWritten == \E i \in DOMAIN writes : writes[i].op = "archive"

\* C2: a run goes on after the pass over the TOC order only when no
\* section is empty; the structural error names exactly the empty
\* sections, in configured order, and in a run that raised it neither the
\* index nor the archive is written; the index is written only in a state
\* where every section has a record.
C2_EmptySectionFatal ==
    /\ pc \in AfterPass => EmptySections(registry) = {}
    /\ error.msg = "No license file found" => EmptySections(registry) = {}
    /\ error.kind = "RuntimeError" =>
          /\ EmptySections(registry) # {}
          /\ error.sections = SelectSeq(SECTIONS, LAMBDA s : s \in EmptySections(registry))
          /\ ~IndexWritten /\ ~ArchiveWritten /\ ~fs.zip
          /\ ~env.dry_run => SkillMdPath \notin fs.out_files
    /\ IndexWritten => EmptySections(registry) = {}

\* C2 witness: a run that copied the documents of one section, found the
\* two others empty and ended with the structural error.
C2_Witness ==
    /\ pc = "exit1"
    /\ ~env.dry_run
    /\ error.kind = "RuntimeError"
    /\ Len(error.sections) = 2
    /\ registry # <<>>

\* The identifiers the section directories hold: the stems of their *.md
\* files
KnownIds(tree) ==
    {Stem(f.name) : f \in {g \in tree.files : g.section \in tree.dirs
                                              /\ g.name[Len(g.name)] = ".md"}}

StemsOf(reg) == [i \in DOMAIN reg |-> Stem(reg[i].filename)]

IsPrefix(a, b) == Len(a) <= Len(b) /\ SubSeq(b, 1, Len(a)) = a

\* C3: the identifiers of the registry are the TOC sequence restricted to
\* the identifiers that have a file, in TOC order (a prefix of it when
\* extract_metadata stopped the pass), whatever the scan order; an
\* identifier without a file raises nothing and adds no record.
C3_OrderFidelity ==
    LET restricted == SelectSeq(doc_order, LAMBDA id : id \in KnownIds(env.tree)) IN
    /\ IsPrefix(StemsOf(registry), restricted)
    /\ (pc \in AfterPass \/ error.kind = "RuntimeError"
            \/ error.msg = "No license file found") => StemsOf(registry) = restricted
    /\ error.kind \in {"", "FileNotFoundError", "RuntimeError", "UnboundLocalError"}
    /\ error.kind = "UnboundLocalError" => Len(StemsOf(registry)) < Len(restricted)

\* C3 witness: the pass ended over a TOC of three identifiers, one of them
\* without a file, and the registry holds the two others in TOC order,
\* which is not their order on disk.
C3_Witness ==
    /\ error.kind = "RuntimeError"
    /\ Len(doc_order) = 3
    /\ \E i \in DOMAIN doc_order : doc_order[i] \notin KnownIds(env.tree)
    /\ StemsOf(registry) = <<IdC, IdA>>

\* The outcome of _process_files under one scan order, from the output
\* directory as _prepare_directory leaves it
OutcomeOf(scan) ==
    ProcessFrom(ProcessInit([out_files |-> IF env.dry_run THEN fs.out_files ELSE {},
                             out_dirs |-> IF env.dry_run THEN fs.out_dirs ELSE {}]),
                doc_order, 1, FileMap(scan), env.dry_run)

JustProcessed ==
    pc = "copy_license" \/ (pc = "fatal" /\ error.kind \in {"RuntimeError", "UnboundLocalError"})

SameOutcomeUnderEveryScan ==
    \A scan \in ScanOrders(env.tree) :
        LET o == OutcomeOf(scan) IN
        /\ o.registry = registry
        /\ o.out_files = fs.out_files
        /\ o.raised = (error.kind = "UnboundLocalError")
        /\ SkillMdLines(o.registry, version) = SkillMdLines(registry, version)

\* A directory with two *.md files of the same stem
SameStemInOneDirectory(tree) ==
    \E f, g \in tree.files :
        /\ f # g /\ f.section = g.section
        /\ f.name[Len(f.name)] = ".md" /\ g.name[Len(g.name)] = ".md"
        /\ Stem(f.name) = Stem(g.name)

\* C4 as stated: the registry, the copied files and the index are the same
\* whatever order each directory is enumerated in.
C4_Deterministic == JustProcessed => SameOutcomeUnderEveryScan

\* C4 amended: the same, when no directory holds two *.md files with the
\* same stem (an identifier in two sections goes to the later section).
C4_DeterministicUnlessSameStem ==
    (JustProcessed /\ ~SameStemInOneDirectory(env.tree)) => SameOutcomeUnderEveryScan

\* C4 witness: C.md is in two sections, the directories can be enumerated
\* in more than one order, and the record of C is the later section's.
C4_Witness ==
    /\ pc = "copy_license"
    /\ env.tree = TreeCross
    /\ Cardinality(ScanOrders(env.tree)) > 1
    /\ \E i \in DOMAIN registry :
          registry[i].filename = <<"C", ".md">> /\ registry[i].section = "ReferenceManual"

\* C5: a run that is not a dry run and ends on a fatal error leaves no
\* output directory that holds content or license files without the index.
C5_NoPartialOutput ==
    (pc = "exit1" /\ ~env.dry_run) =>
        ~(fs.out_exists /\ fs.out_files # {} /\ SkillMdPath \notin fs.out_files)

\* C6: a dry run writes nothing (no removal or creation of the output
\* directory, no copy, no index, no archive, no append to another file),
\* and it still validates: it goes on after the pass only when no section
\* is empty.
C6_DryRunWritesNothing ==
    env.dry_run =>
        /\ writes = <<>>
        /\ fs = InitialFs
        /\ pc \in AfterPass => EmptySections(registry) = {}

Count(seq, P(_)) == Len(SelectSeq(seq, P))

\* C7 as stated: no record twice for one file, no path copied to twice,
\* the index written at most once.
C7_OncePerPath ==
    /\ \A i, j \in DOMAIN registry : registry[i].path = registry[j].path => i = j
    /\ \A i, j \in DOMAIN writes :
          (writes[i].op = "copy" /\ writes[j].op = "copy"
              /\ writes[i].path = writes[j].path) => i = j
    /\ Cardinality(WritesOf("write", SkillMdPath)) <= 1

\* C7 amended: a record is made, and outside a dry run the file copied,
\* once per occurrence of a resolved identifier in the TOC: the copies to
\* a path are as many as the records of that file, the records of an
\* identifier at most as many as its occurrences in the TOC, so that a TOC
\* without a repeated identifier gives at most one record per file and one
\* copy per path; the index is written at most once.
C7_OncePerOccurrence ==
    /\ \A i \in DOMAIN registry :
          LET r == registry[i] IN
          /\ Count(registry, LAMBDA m : Stem(m.filename) = Stem(r.filename))
                <= Count(doc_order, LAMBDA id : id = Stem(r.filename))
          /\ Cardinality(WritesOf("copy", r.path))
                = IF env.dry_run THEN 0 ELSE Count(registry, LAMBDA m : m.path = r.path)
    /\ \A i \in DOMAIN writes :
          (writes[i].op = "copy" /\ Len(writes[i].path) > 1 /\ writes[i].path[1] \in SectionSet)
              => \E k \in DOMAIN registry : registry[k].path = writes[i].path
    /\ (\A i, j \in DOMAIN doc_order : doc_order[i] = doc_order[j] => i = j)
          => /\ \A i, j \in DOMAIN registry : registry[i].path = registry[j].path => i = j
             /\ \A i, j \in DOMAIN writes :
                   (writes[i].op = "copy" /\ writes[j].op = "copy"
                       /\ writes[i].path = writes[j].path) => i = j
    /\ Cardinality(WritesOf("write", SkillMdPath)) <= 1
    /\ (pc = "exit0" /\ ~env.dry_run) => Cardinality(WritesOf("write", SkillMdPath)) = 1

\* C7 witness: the TOC names one document twice, and the run has made two
\* records of it and copied it twice to one path.
C7_Witness ==
    /\ ~env.dry_run
    /\ \E i, j \in DOMAIN registry : i # j /\ registry[i].path = registry[j].path
    /\ \E i, j \in DOMAIN writes :
          /\ i # j /\ writes[i].op = "copy" /\ writes[j].op = "copy"
          /\ writes[i].path = writes[j].path

----------------------------------------------------------------------------
(* Specifications of one function each *)


----------------------------------------------------------------------------
(* The extractor on its own: every text of at most MaxLines lines over     *)
(* LineVocab, and the example document of the specification.               *)

LineVocab ==
    { <<>>,
      <<SP, "}", SP>>,
      <<"@", "Metadata">>,
      <<"}">>,
      <<"#", SP, "Real Title">>,
      <<"#", "#", SP, "Overview">>,
      <<"<", "!-- comment --">>,
      <<">", SP, "Note">>,
      <<"Body text.">> }

ExampleDoc ==
    << <<"@", "Metadata">>, <<"@", "PageKind(article)">>, <<"}">>,
       <<"#", SP, "Real Title">>, <<"Body text.">> >>

ExtractFileName == <<"TheBasics", ".md">>


InitExtract ==
    /\ content \in {JoinLines(ls) : ls \in SeqsUpTo(LineVocab, MaxLines) \cup {ExampleDoc}}
    /\ pc = "extract"
    /\ metadata = NoMetadata
    /\ env = NoRun /\ version = None /\ doc_order = <<>> /\ registry = <<>>
    /\ processed_sections = <<>> /\ fs = NoFs /\ writes = <<>> /\ error = NoError
    /\ skill_md = <<>>

ExtractMetadata ==
    /\ pc = "extract"
    /\ metadata' = extract_metadata(content, ExtractFileName, "LanguageGuide")
    /\ pc' = "extracted"
    /\ UNCHANGED <<env, version, doc_order, registry, processed_sections, fs, writes,
                   error, content, skill_md>>

NextExtract == ExtractMetadata

SpecExtract == InitExtract /\ [][NextExtract]_vars

\* C1: extract_metadata never fails: on every text it returns a record whose
\* title is the filename stem when no '# ' line was found and whose
\* description is 'No description available.' when the scan found no
\* description line.
C1_NeverFails ==
    pc = "extracted" =>
        /\ ~metadata.raised
        /\ (metadata.title_line = 0 => metadata.title = Stem(metadata.filename))
        /\ (metadata.desc_line = 0 => metadata.description = NoDescription)

\* Whether line i of lines lies in a metadata block: some line j <= i opens
\* one ('@' first after trimming) and no line strictly between j and i is
\* exactly '}' after trimming.  The closing line itself is in the block.
IsOpenLine(line) == StartsWith(Strip(line), <<"@">>)
IsCloseLine(line) == Strip(line) = <<"}">>
InBlock(lines, i) ==
    \E j \in 1..i :
        /\ IsOpenLine(lines[j])
        /\ \A k \in (j + 1)..(i - 1) : ~IsCloseLine(lines[k])

\* C8: the line that gives the title and the line that gives the
\* description are never lines of a metadata block (from an '@' line to the
\* next '}' line, blank lines not closing it), and a text that begins with
\* the example's five lines yields 'Real Title' and 'Body text.'.
C8_BlockLinesNeverUsed ==
    pc = "extracted" =>
        LET lines == SplitLines(content) IN
        /\ metadata.title_line # 0 => ~InBlock(lines, metadata.title_line)
        /\ metadata.desc_line # 0 => ~InBlock(lines, metadata.desc_line)
        /\ StartsWith(lines, ExampleDoc) =>
              /\ ~metadata.raised
              /\ metadata.title = <<"Real Title">>
              /\ metadata.description = <<"Body text.">>

\* C8 witness: the example document has been extracted; its block of three
\* lines was skipped, the title came from line 4 and the description from 5.
C8_Witness ==
    /\ pc = "extracted"
    /\ content = JoinLines(ExampleDoc)
    /\ metadata.title_line = 4
    /\ metadata.desc_line = 5

\* get_version on its own: every TOC text of at most MaxTocLines lines over
\* VersionLineVocab.
VersionLineVocab ==
    { HeadingLine,
      <<"#", SP, TITLE_TEXT>>,
      <<"(", "6.2", ")">>,
      <<"#", SP, SP, TITLE_TEXT, "\t", "(", "5.9", ")", SP, "beta">>,
      <<SP, "#", SP, TITLE_TEXT, SP, "(", "6.2", ")">>,
      <<"#", SP, "the swift programming language", SP, "(", "6.2", ")">>,
      <<"#", SP, TITLE_TEXT, SP, "(", ")">>,
      <<>>,
      RefLine(IdA) }

InitVersion ==
    /\ env \in {[toc_exists |-> TRUE, toc_text |-> JoinLines(ls), dry_run |-> FALSE] :
                    ls \in SeqsUpTo(VersionLineVocab, MaxTocLines)}
               \cup {NoRun}
    /\ pc = "get_version"
    /\ version = None
    /\ doc_order = <<>> /\ registry = <<>> /\ processed_sections = <<>>
    /\ fs = NoFs /\ writes = <<>> /\ error = NoError
    /\ content = <<>> /\ metadata = NoMetadata /\ skill_md = <<>>

NextVersion == GetVersion

SpecVersion == InitVersion /\ [][NextVersion]_vars

\* The version a line gives when it has the form of the heading, anchored
\* at its start, and the version of the first line that has it
LineVersion(line) == VersionMatchAt(line, 1)

RECURSIVE FirstLineVersion(_, _)
FirstLineVersion(lines, i) ==
    IF i > Len(lines) THEN None
    ELSE IF LineVersion(lines[i]) # None THEN LineVersion(lines[i])
    ELSE FirstLineVersion(lines, i + 1)

\* C9: get_version returns the parenthesized text of the first single line
\* that has the form '# The Swift Programming Language (V)', and None when
\* no single line has it.
C9_LineBased ==
    (pc = "export_version" /\ env.toc_exists) =>
        version = FirstLineVersion(SplitLines(env.toc_text), 1)

\* _generate_skill_md on its own: every registry of at most MaxReg records
\* over the records of two files per section, with and without a version.
RecordOf(f) == Record(extract_metadata(ReadText(f), f.name, f.section), f)

MetaVocab ==
    {RecordOf(File(s, n)) : s \in SectionSet, n \in {<<"A", ".md">>, <<"B", ".md">>}}

InitRender ==
    /\ registry \in SeqsUpTo(MetaVocab, MaxReg)
    /\ version \in {None, <<"6.2">>}
    /\ pc = "generate"
    /\ env = NoRun
    /\ fs = [NoFs EXCEPT !.out_exists = TRUE]
    /\ doc_order = <<>> /\ processed_sections = <<>>
    /\ writes = <<>> /\ error = NoError
    /\ content = <<>> /\ metadata = NoMetadata /\ skill_md = <<>>

NextRender == GenerateSkillMd

SpecRender == InitRender /\ [][NextRender]_vars

IsHeadingLine(line) == line # <<>> /\ line[1] = "### "
IsEntryLine(line) == line # <<>> /\ line[1] = "- **"

\* The lines of the index between '## Documentation Structure' and
\* '## Usage Notes'
BodyOf(lines) ==
    LET a == CHOOSE i \in DOMAIN lines : lines[i] = StructureLine
        b == CHOOSE i \in DOMAIN lines : lines[i] = UsageLine
    IN  SubSeq(lines, a + 1, b - 1)

\* The entry lines from line i to the next heading
RECURSIVE EntriesFrom(_, _)
EntriesFrom(body, i) ==
    IF i > Len(body) \/ IsHeadingLine(body[i]) THEN <<>>
    ELSE (IF IsEntryLine(body[i]) THEN <<body[i]>> ELSE <<>>) \o EntriesFrom(body, i + 1)

RecordsOf(reg, section) == SelectSeq(reg, LAMBDA m : m.section = section)

\* C10: the index has one block per section that has records, the blocks
\* in the configured order of the sections; a block holds one entry per
\* record of its section, in registry order; every record is in one block.
C10_RenderingOrder ==
    pc = "archive" =>
        LET body == BodyOf(SplitLines(skill_md))
            present == SelectSeq(SECTIONS, LAMBDA s : RecordsOf(registry, s) # <<>>)
        IN  /\ SelectSeq(body, IsHeadingLine)
                  = [k \in DOMAIN present |-> HeadingOf(present[k])]
            /\ EntriesFrom(body, 1) = <<>>
            /\ \A i \in DOMAIN body :
                  IsHeadingLine(body[i]) =>
                      \E s \in SectionSet :
                          /\ body[i] = HeadingOf(s)
                          /\ EntriesFrom(body, i + 1)
                                = [k \in DOMAIN RecordsOf(registry, s) |->
                                      EntryLine(RecordsOf(registry, s)[k])]
            /\ Len(SelectSeq(body, IsEntryLine)) = Len(registry)

\* C10 witness: an index written for a registry that starts with a record
\* of the last section, holds one of the first, and none of the second.
C10_Witness ==
    /\ pc = "archive"
    /\ skill_md # <<>>
    /\ Len(registry) = 3
    /\ registry[1].section = "ReferenceManual"
    /\ registry[2].section = "GuidedTour"
    /\ registry[3].section = "ReferenceManual"

====
